---------------------------- MODULE Spec2Model ----------------------------
(***************************************************************************)
(* A model of the rerec.py translator pipeline: Lexer -> Parser ->         *)
(* CodeGenerator, as driven by RereCompiler.compile_to_c.                  *)
(*                                                                         *)
(* Text is modelled as a sequence of one-character strings, so that the    *)
(* lexer can be modelled character by character and the generator's output *)
(* can be compared byte for byte.                                          *)
(***************************************************************************)
EXTENDS Integers, Sequences, FiniteSets, TLC

VARIABLES
    source,     \* Lexer.source: the text being compiled
    lexPos,     \* Lexer.pos
    token,      \* the driver's local `token`: the last result of get_next_token
    tokens,     \* the driver's list `tokens`, later Parser.tokens
    phase,      \* where compile_to_c stands: "lex", "parse", "gen", "end"
    pos,        \* Parser.pos
    pc,         \* the parser's position in its own code
    loc,        \* the locals of the active parser methods
    result,     \* outcome of Parser.parse: "none", "Module", or the exception raised
    ast,        \* the Module returned by Parser.parse
    output,     \* CodeGenerator.output
    indent,     \* CodeGenerator.indent
    gpc,        \* the generator's position in its own code
    fi,         \* index of the function being generated (for func in module.functions)
    si,         \* index of the statement being generated (for stmt in func.body)
    genResult,  \* outcome of CodeGenerator.generate: "none", "ok", "IndexError"
    pass,       \* number of generate() calls started so far
    codes       \* the texts get_code() returned, one per completed pass

vars == <<source, lexPos, token, tokens, phase, pos, pc, loc, result, ast,
          output, indent, gpc, fi, si, genResult, pass, codes>>

lexVars == <<source, lexPos, token, tokens>>
parseVars == <<pos, pc, loc, result, ast>>
genVars == <<output, indent, gpc, fi, si, genResult, pass, codes>>

---------------------------------------------------------------------------
(* Bounds of the model *)

\* longest free tail of lexemes put into the hole of a program context
MaxTail == 2
\* longest source text drawn freely, character by character
MaxChars == 3
\* number of generation passes run on one tree
MaxPasses == 2

---------------------------------------------------------------------------
(* Text helpers *)

RECURSIVE Flatten(_)
Flatten(ss) == IF ss = <<>> THEN <<>> ELSE Head(ss) \o Flatten(Tail(ss))

\* str.join: the elements of ss with sep between each two neighbours
RECURSIVE Join(_, _)
Join(ss, sep) ==
    IF ss = <<>> THEN <<>>
    ELSE IF Len(ss) = 1 THEN ss[1]
    ELSE ss[1] \o sep \o Join(Tail(ss), sep)

\* '    ' * n
RECURSIVE Spaces(_)
Spaces(n) == IF n <= 0 THEN <<>> ELSE <<" "," "," "," ">> \o Spaces(n - 1)

SeqsUpTo(S, n) == UNION {[1..k -> S] : k \in 0..n}

IsSpace(c) == c \in {" ", "\n", "\t"}

LowerLetters == <<"a","b","c","d","e","f","g","h","i","j","k","l","m","n","o","p","q","r","s","t","u","v","w","x","y","z">>
UpperLetters == <<"A","B","C","D","E","F","G","H","I","J","K","L","M","N","O","P","Q","R","S","T","U","V","W","X","Y","Z">>
Digits == {"0", "1", "2", "3", "4", "5", "6", "7", "8", "9"}

IsAlpha(c) == \E i \in 1..26 : c = LowerLetters[i] \/ c = UpperLetters[i]
IsAlnum(c) == IsAlpha(c) \/ c \in Digits

UpperChar(c) ==
    IF \E i \in 1..26 : c = LowerLetters[i]
    THEN UpperLetters[CHOOSE i \in 1..26 : c = LowerLetters[i]]
    ELSE c

\* str.upper
Upper(s) == [i \in DOMAIN s |-> UpperChar(s[i])]

---------------------------------------------------------------------------
(* Token *)

Token(type, value) == [type |-> type, value |-> value]

tIDENT == <<"I","D","E","N","T">>
tSTRING == <<"S","T","R","I","N","G">>
tEOF == <<"E","O","F">>
EOFToken == Token(tEOF, <<>>)

---------------------------------------------------------------------------
(* Lexer *)

KEYWORDS == {<<"m","o","d","u","l","e">>, <<"i","m","p","o","r","t">>, <<"f","u","n","c">>, <<"r","e","t","u","r","n">>}

PUNCT == {";", "{", "}", "(", ")", ",", ".", ":"}

\* current_char is None once pos has run past the text
NoChar == "None"

\* Lexer.current_char as __init__ and advance keep it: the character at pos
current_char(src, p) == IF p < Len(src) THEN src[p + 1] ELSE NoChar

RECURSIVE skip_whitespace(_, _)
skip_whitespace(src, p) ==
    IF current_char(src, p) # NoChar /\ IsSpace(current_char(src, p))
    THEN skip_whitespace(src, p + 1)
    ELSE p

\* the inner loop of the comment branch: advance up to the newline or the end
RECURSIVE skip_comment(_, _)
skip_comment(src, p) ==
    IF current_char(src, p) # NoChar /\ current_char(src, p) # "\n"
    THEN skip_comment(src, p + 1)
    ELSE p

RECURSIVE get_identifier(_, _, _)
get_identifier(src, p, res) ==
    LET c == current_char(src, p) IN
    IF c # NoChar /\ (IsAlnum(c) \/ c = "_")
    THEN get_identifier(src, p + 1, Append(res, c))
    ELSE [text |-> res, pos |-> p]

RECURSIVE string_body(_, _, _)
string_body(src, p, res) ==
    LET c == current_char(src, p) IN
    IF c # NoChar /\ c # "\""
    THEN string_body(src, p + 1, Append(res, c))
    ELSE [text |-> res, pos |-> p]

\* get_string returning the body alone, the quotes not put back
get_string_unquoted(src, p) ==
    LET b == string_body(src, p + 1, <<>>) IN
    [text |-> b.text, pos |-> b.pos + 1]

\* get_string putting the closing quote back only where the source had one
get_string_unclosed(src, p) ==
    LET b == string_body(src, p + 1, <<>>) IN
    [text |-> IF current_char(src, b.pos) = "\""
              THEN <<"\"">> \o b.text \o <<"\"">>
              ELSE <<"\"">> \o b.text,
     pos |-> b.pos + 1]

\* skips the opening quote, collects the body, skips the closing quote
\* (the last advance happens whether or not a closing quote was found)
get_string(src, p) ==
    LET b == string_body(src, p + 1, <<>>) IN
    [text |-> <<"\"">> \o b.text \o <<"\"">>, pos |-> b.pos + 1]

RECURSIVE get_next_token(_, _)
get_next_token(src, p) ==
    LET c == current_char(src, p) IN
    IF c = NoChar THEN [token |-> EOFToken, pos |-> p]
    ELSE IF IsSpace(c) THEN get_next_token(src, skip_whitespace(src, p))
    ELSE IF c = "/" /\ p + 1 < Len(src) /\ src[p + 2] = "/"
        THEN get_next_token(src, skip_comment(src, p))
    ELSE IF IsAlpha(c) \/ c = "_"
        THEN LET id == get_identifier(src, p, <<>>) IN
             [token |-> IF id.text \in KEYWORDS
                        THEN Token(Upper(id.text), id.text)
                        ELSE Token(tIDENT, id.text),
              pos |-> id.pos]
    ELSE IF c = "\""
        THEN LET s == get_string(src, p) IN
             [token |-> Token(tSTRING, s.text), pos |-> s.pos]
    ELSE IF c \in PUNCT
        THEN [token |-> Token(<<c>>, <<c>>), pos |-> p + 1]
    ELSE get_next_token(src, p + 1)

---------------------------------------------------------------------------
(* The source texts compiled *)

\* a program using every construct of the grammar
FullProgram ==
    <<"m","o","d","u","l","e"," ","m",";"," ","i","m","p","o","r","t"," ","s","t","d",".","i","o",";"," ","f","u","n","c"," ","f","(","a",":"," ","i","n","t",","," ","b",":"," ","w","o","r","d",")","{","p","r","i","n","t","(","\"","a","\"",",","\"","b","\"",")",";"," ","r","e","t","u","r","n"," ","\"","s","\"",";","}">>

\* every text that stops somewhere inside FullProgram
Truncated == {SubSeq(FullProgram, 1, n) : n \in 0..Len(FullProgram)}

\* characters of the freely drawn texts
LexChars == {"a", "_", "1", " ", "\n", "/", "\"", ";", "-", ">"}

FreeTexts == SeqsUpTo(LexChars, MaxChars)

\* a program with a hole: the texts before and after it, and the lexemes
\* the hole is filled with
Context(pre, suf, lexemes) == [pre |-> pre, suf |-> suf, lexemes |-> lexemes]

Contexts == {
    Context(<<>>, <<>>,
            {<<"m","o","d","u","l","e"," ">>, <<"m">>, <<";">>, <<"i","m","p","o","r","t"," ","x",";">>, <<"f","u","n","c"," ","f","(",")","{","}">>}),
    Context(<<"m","o","d","u","l","e"," ","m",";">>, <<>>,
            {<<"i","m","p","o","r","t"," ","s","t","d",".","i","o",";">>, <<"i","m","p","o","r","t"," ","a",".","b",";">>, <<"i","m","p","o","r","t"," ">>, <<"x"," ">>, <<";">>,
             <<"f","u","n","c"," ","f","(",")","{","}">>, <<"f","u","n","c"," ","g","(","a",":"," ","p","t","r",")","{","r","e","t","u","r","n"," ","\"","s","\"",";","}">>}),
    Context(<<"m","o","d","u","l","e"," ","m",";"," ","i","m","p","o","r","t"," ">>, <<"f","u","n","c"," ","f","(",")","{","}">>,
            {<<"s","t","d">>, <<"i","o">>, <<".">>, <<";">>, <<"i","m","p","o","r","t"," ">>}),
    Context(<<"m","o","d","u","l","e"," ","m",";"," ","f","u","n","c"," ","f","(">>, <<")","{","}">>,
            {<<"a",":"," ","i","n","t">>, <<"b",":"," ","m","y","s","t","e","r","y">>, <<",">>, <<"c"," ">>, <<":">>, <<")">>}),
    Context(<<"m","o","d","u","l","e"," ","m",";"," ","f","u","n","c"," ","f","(",")">>, <<"{","}">>,
            {<<"-",">">>, <<"-">>, <<">">>, <<"i","n","t"," ">>, <<" ">>, <<"\"","-",">","\"">>}),
    Context(<<"m","o","d","u","l","e"," ","m",";"," ","f","u","n","c"," ","f","(",")","{">>, <<"}">>,
            {<<"r","e","t","u","r","n"," ","\"","s","\"",";">>, <<"p","r","i","n","t","(","\"","a","\"",")",";">>, <<"p","r","i","n","t","(",")",";">>, <<"g","(",")",";">>,
             <<"r","e","t","u","r","n"," ","1"," ","+"," ","2",";">>, <<"r","e","t","u","r","n"," ">>, <<"g"," ">>, <<"(">>, <<";">>}),
    Context(<<"m","o","d","u","l","e"," ","m",";"," ","f","u","n","c"," ","f","(",")","{","p","r","i","n","t","(">>, <<")",";","}">>,
            {<<"\"","a","\"">>, <<"\"","b","\"">>, <<"\"","a","\"",",">>, <<",">>, <<"1">>, <<"x"," ">>, <<")">>}),
    Context(<<"m","o","d","u","l","e"," ","m",";"," ","f","u","n","c"," ","f","(",")","{","g","(">>, <<")",";","}">>,
            {<<"\"","a","\"">>, <<"\"","b","\"">>, <<"\"","a","\"",",">>, <<",">>, <<"1">>, <<"x"," ">>, <<")">>}),
    Context(<<"m","o","d","u","l","e"," ","m",";"," ","f","u","n","c"," ","f","(",")","{","r","e","t","u","r","n"," ">>, <<";","}">>,
            {<<"\"","s","\"">>, <<"\"","s">>, <<"1">>, <<"+">>, <<"x"," ">>, <<";">>})
}

FilledContexts ==
    UNION {{c.pre \o Flatten(t) \o c.suf : t \in SeqsUpTo(c.lexemes, MaxTail)} :
           c \in Contexts}

Sources == Truncated \cup FreeTexts \cup FilledContexts

---------------------------------------------------------------------------
(* Initial state: Lexer(source) constructed, nothing scanned yet *)

NoLocals ==
    [name |-> <<>>, imports |-> <<>>, functions |-> <<>>, path |-> <<>>,
     fname |-> <<>>, params |-> <<>>, pname |-> <<>>, returns |-> <<>>,
     body |-> <<>>, cfunc |-> <<>>, args |-> <<>>]

NoModule == [name |-> <<>>, imports |-> <<>>, functions |-> <<>>]

Init ==
    /\ source \in Sources
    /\ lexPos = 0
    /\ token = EOFToken
    /\ tokens = <<>>
    /\ phase = "lex"
    /\ pos = 0
    /\ pc = "parse"
    /\ loc = NoLocals
    /\ result = "none"
    /\ ast = NoModule
    /\ output = <<>>
    /\ indent = 0
    /\ gpc = "generate"
    /\ fi = 0
    /\ si = 0
    /\ genResult = "none"
    /\ pass = 0
    /\ codes = <<>>

---------------------------------------------------------------------------
(* RereCompiler.compile_to_c: the tokenizing loop *)

\* one iteration: get_next_token, then break on EOF or append the token
LexStep ==
    /\ phase = "lex"
    /\ LET r == get_next_token(source, lexPos) IN
        /\ lexPos' = r.pos
        /\ token' = r.token
        /\ IF r.token.type = tEOF
           THEN /\ phase' = "parse"
                /\ tokens' = tokens
           ELSE /\ phase' = phase
                /\ tokens' = Append(tokens, r.token)
    /\ UNCHANGED <<source, parseVars, genVars>>

---------------------------------------------------------------------------
(* AST nodes *)

Module(name, imports, functions) ==
    [name |-> name, imports |-> imports, functions |-> functions]

Function(name, params, returns, body) ==
    [name |-> name, params |-> params, returns |-> returns, body |-> body]

Call(func, args) == [kind |-> "Call", func |-> func, args |-> args]

StringLiteral(value) == [kind |-> "StringLiteral", value |-> value]

Return(value) == [kind |-> "Return", value |-> value]

---------------------------------------------------------------------------
(* Parser *)

\* Parser.current_token as __init__ and advance keep it
current_token == IF pos < Len(tokens) THEN tokens[pos + 1] ELSE EOFToken

peek == IF pos + 1 < Len(tokens) THEN tokens[pos + 2] ELSE EOFToken

\* advance leaving the position where it is
advance_stuck(p) == p

\* Parser.advance
advance(p) == p + 1

\* the test of Parser.expect
Matches(tok, expected) == tok.type = expected \/ tok.value = expected

ParserAt(at) == phase = "parse" /\ pc = at

Goto(next, newPos, newLoc) ==
    /\ pc' = next
    /\ pos' = newPos
    /\ loc' = newLoc
    /\ UNCHANGED <<phase, result, ast>>

\* an exception leaves the parser and ends compile_to_c
Raise(kind, atPos) ==
    /\ pc' = "raised"
    /\ result' = kind
    /\ phase' = "end"
    /\ pos' = atPos
    /\ UNCHANGED <<loc, ast>>

\* Parser.expect: take the current token if it matches, raise SyntaxError if not
expect(expected, next, newLoc) ==
    /\ IF Matches(current_token, expected)
       THEN Goto(next, advance(pos), newLoc)
       ELSE Raise("SyntaxError", pos)
    /\ UNCHANGED <<lexVars, genVars>>

\* a test of the current token that consumes nothing
Branch(cond, thenPc, elsePc, newLoc) ==
    /\ Goto(IF cond THEN thenPc ELSE elsePc, pos, newLoc)
    /\ UNCHANGED <<lexVars, genVars>>

\* parse_expression raising SyntaxError for what it does not support
parse_expression_syntax_error(tok) ==
    IF tok.type = tSTRING
    THEN [raised |-> "none", node |-> StringLiteral(tok.value)]
    ELSE [raised |-> "SyntaxError", node |-> <<>>]

\* Parser.parse_expression
parse_expression(tok) ==
    IF tok.type = tSTRING
    THEN [raised |-> "none", node |-> StringLiteral(tok.value)]
    ELSE [raised |-> "NotImplementedError", node |-> <<>>]

(* parse_module *)

ModuleKeyword == ParserAt("parse") /\ expect(<<"m","o","d","u","l","e">>, "pm_name", loc)

ModuleName ==
    ParserAt("pm_name")
    /\ expect(tIDENT, "pm_semi", [loc EXCEPT !.name = current_token.value])

ModuleSemi ==
    ParserAt("pm_semi") /\ expect(<<";">>, "pm_imports", [loc EXCEPT !.imports = <<>>])

ImportLoop ==
    ParserAt("pm_imports")
    /\ Branch(current_token.value = <<"i","m","p","o","r","t">>, "pi_import", "pm_functions",
              IF current_token.value = <<"i","m","p","o","r","t">> THEN loc
              ELSE [loc EXCEPT !.functions = <<>>])

FunctionLoop ==
    ParserAt("pm_functions") /\ current_token.value = <<"f","u","n","c">>
    /\ Branch(TRUE, "pf_func", "pf_func", loc)

\* return Module(name, imports, functions); compile_to_c goes on to generate
ReturnModule ==
    /\ ParserAt("pm_functions") /\ current_token.value # <<"f","u","n","c">>
    /\ pc' = "returned"
    /\ result' = "Module"
    /\ ast' = Module(loc.name, loc.imports, loc.functions)
    /\ phase' = "gen"
    /\ UNCHANGED <<pos, loc, lexVars, genVars>>

(* parse_import *)

ImportKeyword ==
    ParserAt("pi_import") /\ expect(<<"i","m","p","o","r","t">>, "pi_first", [loc EXCEPT !.path = <<>>])

ImportFirst ==
    ParserAt("pi_first")
    /\ expect(tIDENT, "pi_dots", [loc EXCEPT !.path = Append(@, current_token.value)])

ImportDotLoop ==
    ParserAt("pi_dots") /\ Branch(current_token.value = <<".">>, "pi_dot", "pi_semi", loc)

ImportDot == ParserAt("pi_dot") /\ expect(<<".">>, "pi_next", loc)

ImportNext ==
    ParserAt("pi_next")
    /\ expect(tIDENT, "pi_dots", [loc EXCEPT !.path = Append(@, current_token.value)])

ImportSemi ==
    ParserAt("pi_semi")
    /\ expect(<<";">>, "pm_imports",
              [loc EXCEPT !.imports = Append(@, Join(loc.path, <<".">>))])

(* parse_function *)

FuncKeyword == ParserAt("pf_func") /\ expect(<<"f","u","n","c">>, "pf_name", loc)

FuncName ==
    ParserAt("pf_name") /\ expect(tIDENT, "pf_lparen", [loc EXCEPT !.fname = current_token.value])

FuncLParen ==
    ParserAt("pf_lparen") /\ expect(<<"(">>, "pf_params", [loc EXCEPT !.params = <<>>])

ParamLoop ==
    ParserAt("pf_params") /\ Branch(current_token.value # <<")">>, "pf_pname", "pf_rparen", loc)

ParamName ==
    ParserAt("pf_pname") /\ expect(tIDENT, "pf_colon", [loc EXCEPT !.pname = current_token.value])

ParamColon == ParserAt("pf_colon") /\ expect(<<":">>, "pf_ptype", loc)

ParamType ==
    ParserAt("pf_ptype")
    /\ expect(tIDENT, "pf_comma",
              [loc EXCEPT !.params = Append(@, <<loc.pname, current_token.value>>)])

\* if self.current_token.value == ',': self.expect(',')
ParamComma ==
    ParserAt("pf_comma")
    /\ IF current_token.value = <<",">>
       THEN expect(<<",">>, "pf_params", loc)
       ELSE Branch(TRUE, "pf_params", "pf_params", loc)

FuncRParen == ParserAt("pf_rparen") /\ expect(<<")">>, "pf_returns", loc)

\* returns = 'void'; if the current token is '->': expect('->'), expect('IDENT')
FuncReturns ==
    /\ ParserAt("pf_returns")
    /\ IF current_token.value = <<"-",">">>
       THEN LET after == advance(pos)
                tok == IF after < Len(tokens) THEN tokens[after + 1] ELSE EOFToken
            IN  IF Matches(tok, tIDENT)
                THEN Goto("pf_lbrace", advance(after), [loc EXCEPT !.returns = tok.value])
                ELSE Raise("SyntaxError", after)
       ELSE Goto("pf_lbrace", pos, [loc EXCEPT !.returns = <<"v","o","i","d">>])
    /\ UNCHANGED <<lexVars, genVars>>

FuncLBrace == ParserAt("pf_lbrace") /\ expect(<<"{">>, "pf_body", [loc EXCEPT !.body = <<>>])

BodyLoop ==
    ParserAt("pf_body") /\ Branch(current_token.value # <<"}">>, "ps_statement", "pf_rbrace", loc)

FuncRBrace ==
    ParserAt("pf_rbrace")
    /\ expect(<<"}">>, "pm_functions",
              [loc EXCEPT !.functions =
                  Append(@, Function(loc.fname, loc.params, loc.returns, loc.body))])

(* parse_statement *)

parse_statement ==
    /\ ParserAt("ps_statement")
    /\ IF current_token.value = <<"r","e","t","u","r","n">>
       THEN Goto("pr_return", pos, loc)
       ELSE IF current_token.type = tIDENT /\ peek.value = <<"(">>
       THEN Goto("pc_name", pos, loc)
       ELSE Raise("SyntaxError", pos)
    /\ UNCHANGED <<lexVars, genVars>>

(* parse_call *)

CallName ==
    ParserAt("pc_name") /\ expect(tIDENT, "pc_lparen", [loc EXCEPT !.cfunc = current_token.value])

CallLParen == ParserAt("pc_lparen") /\ expect(<<"(">>, "pc_args", [loc EXCEPT !.args = <<>>])

ArgLoop ==
    ParserAt("pc_args") /\ Branch(current_token.value # <<")">>, "pc_arg", "pc_rparen", loc)

\* args.append(self.parse_expression())
CallArg ==
    /\ ParserAt("pc_arg")
    /\ LET e == parse_expression(current_token) IN
       IF e.raised = "none"
       THEN Goto("pc_comma", advance(pos), [loc EXCEPT !.args = Append(@, e.node)])
       ELSE Raise(e.raised, pos)
    /\ UNCHANGED <<lexVars, genVars>>

\* if self.current_token.value == ',': self.expect(',')
ArgComma ==
    ParserAt("pc_comma")
    /\ IF current_token.value = <<",">>
       THEN expect(<<",">>, "pc_args", loc)
       ELSE Branch(TRUE, "pc_args", "pc_args", loc)

CallRParen == ParserAt("pc_rparen") /\ expect(<<")">>, "pc_semi", loc)

CallSemi ==
    ParserAt("pc_semi")
    /\ expect(<<";">>, "pf_body", [loc EXCEPT !.body = Append(@, Call(loc.cfunc, loc.args))])

(* parse_return *)

ReturnKeyword == ParserAt("pr_return") /\ expect(<<"r","e","t","u","r","n">>, "pr_expr", loc)

\* expr = self.parse_expression(); the node is kept in args until the ';'
ReturnExpr ==
    /\ ParserAt("pr_expr")
    /\ LET e == parse_expression(current_token) IN
       IF e.raised = "none"
       THEN Goto("pr_semi", advance(pos), [loc EXCEPT !.args = <<e.node>>])
       ELSE Raise(e.raised, pos)
    /\ UNCHANGED <<lexVars, genVars>>

ReturnSemi ==
    ParserAt("pr_semi")
    /\ expect(<<";">>, "pf_body", [loc EXCEPT !.body = Append(@, Return(loc.args[1]))])

ParserStep ==
    \/ ModuleKeyword \/ ModuleName \/ ModuleSemi \/ ImportLoop \/ FunctionLoop
    \/ ReturnModule
    \/ ImportKeyword \/ ImportFirst \/ ImportDotLoop \/ ImportDot \/ ImportNext
    \/ ImportSemi
    \/ FuncKeyword \/ FuncName \/ FuncLParen \/ ParamLoop \/ ParamName \/ ParamColon
    \/ ParamType \/ ParamComma \/ FuncRParen \/ FuncReturns \/ FuncLBrace \/ BodyLoop
    \/ FuncRBrace
    \/ parse_statement
    \/ CallName \/ CallLParen \/ ArgLoop \/ CallArg \/ ArgComma \/ CallRParen \/ CallSemi
    \/ ReturnKeyword \/ ReturnExpr \/ ReturnSemi

---------------------------------------------------------------------------
(* CodeGenerator *)

\* CodeGenerator.emit
emit(out, depth, line) == Append(out, Spaces(depth) \o line)

\* type_map.get(t, 'int') in generate_function
type_map(t) ==
    IF t = <<"i","n","t">> THEN <<"i","n","t">>
    ELSE IF t = <<"v","o","i","d">> THEN <<"v","o","i","d">>
    ELSE IF t = <<"w","o","r","d">> THEN <<"s","i","z","e","_","t">>
    ELSE IF t = <<"p","t","r">> THEN <<"v","o","i","d","*">>
    ELSE <<"i","n","t">>

\* the forward declarations generate emits for the imports
RECURSIVE import_lines(_, _, _)
import_lines(out, depth, imports) ==
    IF imports = <<>> THEN out
    ELSE import_lines(
            IF Head(imports) = <<"s","t","d",".","i","o">>
            THEN emit(out, depth, <<"v","o","i","d"," ","s","t","d","_","i","o","_","p","r","i","n","t","(","c","o","n","s","t"," ","c","h","a","r","*"," ","m","s","g",")",";">>)
            ELSE out,
            depth, Tail(imports))

\* the first line generate_function emits: the signature and the opening brace
signature(func) ==
    type_map(func.returns) \o <<" ">> \o func.name \o <<"(">>
    \o Join([i \in DOMAIN func.params |->
                type_map(func.params[i][2]) \o <<" ">> \o func.params[i][1]], <<","," ">>)
    \o <<")"," ","{">>

\* generate_call forwarding every argument of a print
generate_call_forward_all(call) ==
    [raised |-> "none",
     lines |-> <<(IF call.func = <<"p","r","i","n","t">> THEN <<"p","r","i","n","t","f">> ELSE call.func) \o <<"(">>
                 \o Join([i \in DOMAIN call.args |-> call.args[i].value], <<","," ">>)
                 \o <<")",";">>>>]

\* CodeGenerator.generate_call: the lines emitted, or the exception raised
generate_call(call) ==
    IF call.func = <<"p","r","i","n","t">>
    THEN IF Len(call.args) >= 1
         THEN [raised |-> "none",
               lines |-> <<<<"p","r","i","n","t","f","(">> \o call.args[1].value \o <<")",";">>>>]
         ELSE [raised |-> "IndexError", lines |-> <<>>]
    ELSE [raised |-> "none",
          lines |-> <<call.func \o <<"(">>
                      \o Join([i \in DOMAIN call.args |-> call.args[i].value], <<","," ">>)
                      \o <<")",";">>>>]

\* CodeGenerator.generate_return; the parser builds no value but a StringLiteral,
\* the other branch formats the node itself
generate_return(ret) ==
    IF ret.value.kind = "StringLiteral"
    THEN [raised |-> "none", lines |-> <<<<"r","e","t","u","r","n"," ">> \o ret.value.value \o <<";">>>>]
    ELSE [raised |-> "none", lines |-> <<<<"r","e","t","u","r","n"," ","<","n","o","d","e",">",";">>>>]

\* CodeGenerator.generate_statement
generate_statement(stmt) ==
    IF stmt.kind = "Call" THEN generate_call(stmt)
    ELSE IF stmt.kind = "Return" THEN generate_return(stmt)
    ELSE [raised |-> "none", lines |-> <<>>]

\* emit, once per line
RECURSIVE emit_all(_, _, _)
emit_all(out, depth, lines) ==
    IF lines = <<>> THEN out
    ELSE emit_all(emit(out, depth, Head(lines)), depth, Tail(lines))

\* CodeGenerator.get_code
get_code(out) == Join(out, <<"\n">>)

GeneratorAt(at) == phase = "gen" /\ gpc = at

\* generate, up to the loop over the functions
generate ==
    /\ GeneratorAt("generate")
    /\ output' =
         emit(import_lines(
                emit(emit(emit(output, indent, <<"#","i","n","c","l","u","d","e"," ","<","s","t","d","i","o",".","h",">">>),
                          indent, <<"#","i","n","c","l","u","d","e"," ","<","s","t","d","l","i","b",".","h",">">>),
                     indent, <<>>),
                indent, ast.imports),
              indent, <<>>)
    /\ fi' = 1
    /\ gpc' = "functions"
    /\ UNCHANGED <<indent, si, genResult, pass, codes, phase, lexVars, parseVars>>

\* generate_function, up to the loop over the body
generate_function ==
    /\ GeneratorAt("functions") /\ fi <= Len(ast.functions)
    /\ output' = emit(output, indent, signature(ast.functions[fi]))
    /\ indent' = indent + 1
    /\ si' = 1
    /\ gpc' = "body"
    /\ UNCHANGED <<fi, genResult, pass, codes, phase, lexVars, parseVars>>

\* one statement of the body; an exception leaves generate with the depth as it is
GenerateStatement ==
    /\ GeneratorAt("body") /\ si <= Len(ast.functions[fi].body)
    /\ LET g == generate_statement(ast.functions[fi].body[si]) IN
       IF g.raised = "none"
       THEN /\ output' = emit_all(output, indent, g.lines)
            /\ si' = si + 1
            /\ UNCHANGED <<gpc, genResult, phase>>
       ELSE /\ gpc' = "raised"
            /\ genResult' = g.raised
            /\ phase' = "end"
            /\ UNCHANGED <<output, si>>
    /\ UNCHANGED <<indent, fi, pass, codes, lexVars, parseVars>>

\* the end of generate_function
EndFunction ==
    /\ GeneratorAt("body") /\ si > Len(ast.functions[fi].body)
    /\ indent' = indent - 1
    /\ output' = emit(emit(output, indent - 1, <<"}">>), indent - 1, <<>>)
    /\ fi' = fi + 1
    /\ gpc' = "functions"
    /\ UNCHANGED <<si, genResult, pass, codes, phase, lexVars, parseVars>>

\* generate returns; c_code = gen.get_code()
GetCode ==
    /\ GeneratorAt("functions") /\ fi > Len(ast.functions)
    /\ genResult' = "ok"
    /\ codes' = Append(codes, get_code(output))
    /\ pass' = pass + 1
    /\ gpc' = "done"
    /\ UNCHANGED <<output, indent, fi, si, phase, lexVars, parseVars>>

\* gen.generate(ast) called once more on the generator already used
GenerateAgain ==
    /\ GeneratorAt("done") /\ pass < MaxPasses
    /\ gpc' = "generate"
    /\ genResult' = "none"
    /\ UNCHANGED <<output, indent, fi, si, pass, codes, phase, lexVars, parseVars>>

\* gen = CodeGenerator(): a new generator for the same tree
NewGenerator ==
    /\ GeneratorAt("done") /\ pass < MaxPasses
    /\ output' = <<>>
    /\ indent' = 0
    /\ gpc' = "generate"
    /\ genResult' = "none"
    /\ UNCHANGED <<fi, si, pass, codes, phase, lexVars, parseVars>>

GeneratorStep ==
    \/ generate \/ generate_function \/ GenerateStatement \/ EndFunction \/ GetCode
    \/ GenerateAgain \/ NewGenerator

---------------------------------------------------------------------------
(* Specifications *)

Next == LexStep \/ ParserStep \/ GeneratorStep

Spec == Init /\ [][Next]_vars

---------------------------------------------------------------------------
(* Helpers of the properties *)

IsPrefix(p, s) == Len(p) <= Len(s) /\ SubSeq(s, 1, Len(p)) = p

Last(s) == s[Len(s)]

IsIdent(tok) == tok.type = tIDENT
IsPunct(tok, c) == tok.type = <<c>> /\ tok.value = <<c>>

\* the tokens at i-3 .. i-1 are a Param: IDENT ':' IDENT
ParamEndsBefore(i) ==
    /\ i > 3
    /\ i - 1 <= Len(tokens)
    /\ IsIdent(tokens[i - 3])
    /\ IsPunct(tokens[i - 2], ":")
    /\ IsIdent(tokens[i - 1])

ParseReturned == result = "Module"
ParseEnded == result # "none"

---------------------------------------------------------------------------
(* C1 *)

\* a Param, then ',', then ')' right after it
TrailingCommaParam ==
    \E i \in 1..Len(tokens) :
        /\ ParamEndsBefore(i)
        /\ i + 1 <= Len(tokens)
        /\ IsPunct(tokens[i], ",")
        /\ IsPunct(tokens[i + 1], ")")

\* C1: a parameter list that ends with a comma directly before ')' makes the
\* parse raise SyntaxError: the parse never returns a Module for such tokens.
\* (The code returns one: after the ',' the loop tests for ')' again and ends.)
C1_TrailingCommaRejected ==
    (phase # "lex" /\ TrailingCommaParam) => ~ParseReturned

---------------------------------------------------------------------------
(* C2 *)

AtExpression == phase = "parse" /\ pc \in {"pc_arg", "pr_expr"}

ReturnOnePlusTwo == <<"m","o","d","u","l","e"," ","m",";"," ","f","u","n","c"," ","f","(",")","{","r","e","t","u","r","n"," ","1"," ","+"," ","2",";">>

\* C2: whenever the parser stands at an expression position (the operand of
\* return, an argument of a call) and the current token is not a STRING, its
\* next step raises NotImplementedError, no Module is returned and no target
\* text is generated; a body that holds `return 1 + 2;` ends in that error.
C2_UnsupportedExpression ==
    /\ [][(AtExpression /\ current_token.type # tSTRING)
            => (result' = "NotImplementedError" /\ phase' = "end")]_vars
    /\ [](result = "NotImplementedError"
            => (phase = "end" /\ ast = NoModule /\ output = <<>> /\ codes = <<>>))
    /\ []((IsPrefix(ReturnOnePlusTwo, source) /\ ParseEnded)
            => result = "NotImplementedError")

\* `return 1 + 2;` has been lexed to `return ;` and the parser has raised at the ';'
C2_Witness ==
    /\ IsPrefix(ReturnOnePlusTwo, source)
    /\ result = "NotImplementedError"
    /\ pc = "raised"
    /\ IsPunct(current_token, ";")

---------------------------------------------------------------------------
(* C3 *)

\* C3: generating a second time from the same tree, on a new generator or on the
\* one already used, returns text identical to the first run's.
\* (On the generator already used the code appends to the output of the first run.)
C3_GenerationRepeatable ==
    \A i \in DOMAIN codes : codes[i] = codes[1]

---------------------------------------------------------------------------
(* C4 *)

\* the argument texts with ", " between them, built from the left
RECURSIVE ArgTexts(_, _)
ArgTexts(args, n) ==
    IF n = 0 THEN <<>>
    ELSE IF n = 1 THEN args[1].value
    ELSE ArgTexts(args, n - 1) \o <<",", " ">> \o args[n].value

\* the line a Call is to be lowered to
LoweredCall(call) ==
    IF call.func = <<"p","r","i","n","t">>
    THEN <<"p","r","i","n","t","f","(">> \o call.args[1].value \o <<")",";">>
    ELSE call.func \o <<"(">> \o ArgTexts(call.args, Len(call.args)) \o <<")", ";">>

AtStatement ==
    phase = "gen" /\ gpc = "body" /\ si <= Len(ast.functions[fi].body)

Statement == ast.functions[fi].body[si]

\* a print with an argument, or a Call of any other name
LowerableCall(stmt) ==
    /\ stmt.kind = "Call"
    /\ (stmt.func = <<"p","r","i","n","t">> => Len(stmt.args) >= 1)

\* C4: generating a Call statement emits exactly one line: printf(<first
\* argument>); for a print with one or more arguments, the later ones dropped,
\* and <name>(<a1>, <a2>, ...); with every argument in order for any other name.
C4_CallLowering ==
    [][(AtStatement /\ LowerableCall(Statement))
        => /\ Len(output') = Len(output) + 1
           /\ SubSeq(output', 1, Len(output)) = output
           /\ Last(output') = Spaces(indent) \o LoweredCall(Statement)]_vars

\* a print with two arguments has just been lowered to a printf of the first
C4_Witness ==
    /\ phase = "gen" /\ gpc = "body" /\ si = 2
    /\ ast.functions[fi].body[1].kind = "Call"
    /\ ast.functions[fi].body[1].func = <<"p","r","i","n","t">>
    /\ Len(ast.functions[fi].body[1].args) = 2
    /\ Last(output) = <<" "," "," "," ","p","r","i","n","t","f","(","\"","a","\"",")",";">>

---------------------------------------------------------------------------
(* C5 *)

\* how many steps the parser can take from a place in its code without
\* consuming a token
Rank(at) ==
    CASE at \in {"pm_imports"} -> 3
      [] at \in {"pm_functions", "pf_comma", "pc_comma", "pf_body"} -> 2
      [] at \in {"pf_params", "pf_returns", "pc_args", "pi_dots", "ps_statement"} -> 1
      [] OTHER -> 0

InConstruct == phase = "parse" /\ pc \notin {"pm_imports", "pm_functions"}

\* what is left for the parser to do: the tokens not yet taken, and the
\* token-free steps left where it stands
Measure == 4 * (Len(tokens) - pos) + Rank(pc)

\* C5: the parser terminates on every token sequence, returning a Module or
\* raising: until the parse has ended the parser has a next step, and each
\* step ends the parse or lowers Measure, which is never negative; a step that
\* takes no token moves to a place of lower rank, so every round of a loop
\* takes a token or raises; and with the tokens exhausted inside a construct
\* no token is taken any more, so the parser raises after at most Rank steps.
C5_ParserTerminates ==
    /\ [](phase = "parse" => (ENABLED ParserStep /\ result = "none"))
    /\ [](pos <= Len(tokens) /\ Measure >= 0)
    /\ [][phase = "parse" => (result' # "none" \/ Measure' < Measure)]_vars
    /\ [][phase = "parse"
            => \/ pos' > pos
               \/ result' # "none"
               \/ (pos' = pos /\ Rank(pc') < Rank(pc))]_vars
    /\ [][(InConstruct /\ pos = Len(tokens))
            => (result' \in {"SyntaxError", "NotImplementedError"}
                \/ (result' = "none" /\ pos' = pos /\ Rank(pc') < Rank(pc)))]_vars
    /\ [](phase \in {"gen", "end"} => ParseEnded)

\* the parser has gone twice round the parameter loop and ended
C5_Witness ==
    /\ ParseEnded
    /\ Len(loc.params) >= 2
    /\ pos > 0

---------------------------------------------------------------------------
(* C6 *)

Arrow == <<"-",">">>

FunctionsSoFar == loc.functions \o ast.functions

\* `-> int` written between the ')' and the '{' of a function
ArrowPrefix == <<"m","o","d","u","l","e"," ","m",";"," ","f","u","n","c"," ","f","(",")","-",">","i","n","t"," ">>
ArrowProgram == ArrowPrefix \o <<"{","}">>

\* C6: no token the lexer emits has the text `->`, so every function the
\* parser builds has return type void, and a source with `-> T` between ')'
\* and '{' does not parse.
C6_ArrowNeverParses ==
    /\ token.value # Arrow
    /\ \A i \in DOMAIN tokens : tokens[i].value # Arrow
    /\ loc.returns \in {<<>>, <<"v","o","i","d">>}
    /\ \A i \in DOMAIN FunctionsSoFar : FunctionsSoFar[i].returns = <<"v","o","i","d">>
    /\ (IsPrefix(ArrowPrefix, source) /\ ParseEnded) => result = "SyntaxError"

\* `->` stood in the source after ')', the parser was past the arrow test and raised
C6_Witness ==
    /\ source = ArrowProgram
    /\ result = "SyntaxError"
    /\ loc.returns = <<"v","o","i","d">>
    /\ IsIdent(current_token)

---------------------------------------------------------------------------
(* C7 *)

QuotePositions(s) == {i \in 1..Len(s) : s[i] = "\""}

\* the only quote of s is at q and is not inside a comment
UnterminatedAt(s, q) ==
    /\ QuotePositions(s) = {q}
    /\ \A i \in 1..(q - 1) : s[i] # "/"

\* once scanned, a source whose only quote opens a string ends in a STRING token
\* holding everything after the quote, wrapped in quotes
OpenStringEmitted ==
    \A q \in 1..Len(source) :
        (UnterminatedAt(source, q) /\ phase # "lex")
            => /\ tokens # <<>>
               /\ Last(tokens) =
                    Token(tSTRING,
                          <<"\"">> \o SubSeq(source, q + 1, Len(source)) \o <<"\"">>)

\* C7: the tokenizing loop ends on every source text: each call of
\* get_next_token that returns a token moves the scan position forward, the
\* position never passes the end of the text by more than one, the call that
\* ends the loop returns EOF with empty text, and a string the source leaves
\* open is emitted as a STRING holding what was collected, in quotes.
C7_LexerTerminates ==
    /\ [](lexPos <= Len(source) + 1 /\ Len(tokens) <= lexPos)
    /\ [][phase = "lex"
            => /\ token'.type # tEOF => (lexPos' > lexPos /\ phase' = "lex")
               /\ token'.type = tEOF => (token' = EOFToken /\ phase' # "lex")]_vars
    /\ [](phase # "lex" => (token = EOFToken /\ lexPos >= Len(source)))
    /\ []OpenStringEmitted

\* a source that ends inside a string literal has been scanned to the end
C7_Witness ==
    /\ phase # "lex"
    /\ \E q \in 1..Len(source) : UnterminatedAt(source, q) /\ q < Len(source)
    /\ lexPos = Len(source) + 1

---------------------------------------------------------------------------
(* C8 *)

\* two Params, or two argument expressions, with nothing between them
MissingComma ==
    \E i \in 1..Len(tokens) :
        \/ /\ ParamEndsBefore(i)
           /\ i + 1 <= Len(tokens)
           /\ IsIdent(tokens[i])
           /\ IsPunct(tokens[i + 1], ":")
        \/ /\ i + 1 <= Len(tokens)
           /\ tokens[i].type = tSTRING
           /\ tokens[i + 1].type = tSTRING

\* C8: two consecutive parameters, or two consecutive argument expressions,
\* with no comma between them make the parse raise SyntaxError, never return
\* a Module. (The code returns one: the ',' is taken if present, never required.)
C8_CommaRequired ==
    (phase # "lex" /\ MissingComma) => ~ParseReturned

---------------------------------------------------------------------------
(* C9 *)

\* C9: when the parse returns a Module, the parser has consumed every token.
\* (The code returns at the first token that is not `func`, whatever follows.)
C9_AllTokensConsumed == ParseReturned => pos = Len(tokens)

---------------------------------------------------------------------------
(* C10 *)

\* C10: for every Module the parser returns, generate completes without
\* raising and leaves the indentation depth at 0.
\* (For `print();` the code raises IndexError at args[0], the depth still 1.)
C10_GenerateCompletes ==
    /\ genResult \in {"none", "ok"}
    /\ (gpc \in {"done", "raised"}) => indent = 0

===========================================================================
